---- MODULE Spec2Model ----
(***************************************************************************)
(* Model of the genetic-algorithm scheduler of "Program 2/main.py".        *)
(*                                                                         *)
(* Fitness values are kept in exact fixed point: the integer u stands for  *)
(* the Python float u * 0.05 (every weight of get_fitness is a multiple of *)
(* 0.05), so 10 is 0.5, 8 is 0.4, 6 is 0.3, 5 is 0.25, 4 is 0.2, 2 is 0.1. *)
(* A probability or an average is a pair <<num, den>> for num / den.       *)
(* Python's 0-based indices are kept where the code computes with them     *)
(* (chiasma, best_schedule_ix); TLA+ sequences are 1-based, so Python      *)
(* index i is position i + 1.                                              *)
(***************************************************************************)
EXTENDS Integers, Sequences, FiniteSets, TLC

VARIABLES
    schedule,                     \* the Schedule of the run (never mutated)
    pc,                           \* position of the running operation
    \* ---- main()
    g,                            \* generation counter of "for g in count()"
    population,                   \* list of ScheduleAssignment
    population_fitness,           \* list of get_fitness values
    mutation_rate,                \* <<num, den>>
    avg_prev_population_fitness,  \* <<sum, len>> of the previous generation
    avg_population_fitness,       \* <<sum, len>> of this generation
    best_schedule_ix,             \* 0-based index reported by main()
    best_fitness,                 \* fitness reported by main()
    gen0_fitness,                 \* history: best fitness of generation 0
    stop_tests,                   \* history: evaluations of the stopping test
    \* ---- get_next_generation()
    parent_pool_size,             \* its argument
    parent_population,            \* positions of population drawn as the pool
    parents,                      \* per offspring: <<a, b>> positions of the pool
    new_generation,               \* its result
    \* ---- cross_schedules()
    a, b,                         \* the two parents
    chiasma,                      \* the crossover point drawn
    child,                        \* the offspring
    \* ---- get_fitness()
    cand,                         \* the candidate scored
    terms                         \* per-rule contributions and their total

vars == <<schedule, pc, g, population, population_fitness, mutation_rate,
          avg_prev_population_fitness, avg_population_fitness,
          best_schedule_ix, best_fitness, gen0_fitness, stop_tests,
          parent_pool_size, parent_population, parents, new_generation,
          a, b, chiasma, child, cand, terms>>

mainVars == <<g, population, population_fitness, mutation_rate,
              avg_prev_population_fitness, avg_population_fitness,
              best_schedule_ix, best_fitness, gen0_fitness, stop_tests>>
selectVars == <<parent_pool_size, parent_population, parents, new_generation>>
crossVars == <<a, b, chiasma, child>>
fitVars == <<cand, terms>>

\* The value of a variable an operation has not assigned (Python: unbound).
None == "None"

(***************************************************************************)
(* Bounds                                                                  *)
(***************************************************************************)
\* POPULATION_SIZE of main() (500 in the source), scaled down.
POPULATION_SIZE == 2
\* PARENT_POPULATION_SIZE of main() (int(500 * 0.2) = 100 in the source),
\* scaled down; at least 2, or the pairing draw of get_next_generation raises.
PARENT_POPULATION_SIZE == 2
\* The generation after which main() evaluates the stopping test
\* ("if g > 100" in the source), scaled down.
GENERATION_THRESHOLD == 1
\* Generations past the threshold that the model follows.
MaxExtraGenerations == 1
\* Largest population handed to get_next_generation on its own.
MaxSelectPopulation == 3

(***************************************************************************)
(* Helpers                                                                 *)
(***************************************************************************)
Range(s) == {s[i] : i \in DOMAIN s}

RECURSIVE SumFn(_)
\* sum of the values of a function with a finite domain
SumFn(f) ==
    IF DOMAIN f = {} THEN 0
    ELSE LET x == CHOOSE y \in DOMAIN f : TRUE
         IN  f[x] + SumFn([y \in DOMAIN f \ {x} |-> f[y]])

Abs(x) == IF x < 0 THEN -x ELSE x

(***************************************************************************)
(* Domain model                                                            *)
(***************************************************************************)
MkRoom(building, number, capacity) ==
    [building |-> building, number |-> number, capacity |-> capacity]

MkActivity(subject, course_number, section, expected_enrollment, preferred, other) ==
    [subject |-> subject, course_number |-> course_number, section |-> section,
     expected_enrollment |-> expected_enrollment,
     preferred_facilitators |-> preferred, other_facilitators |-> other]

\* format(n, "03") for n >= 0: zero-padded to at least three digits
Pad3(n) ==
    IF n < 10 THEN "00" \o ToString(n)
    ELSE IF n < 100 THEN "0" \o ToString(n)
    ELSE ToString(n)

\* Activity.get_id: f"{subject}{course_number:03}{section or ''}"
get_id(activity) ==
    activity.subject \o Pad3(activity.course_number)
        \o (IF activity.section = None THEN "" ELSE activity.section)

MkSchedule(activities, facilitators, rooms, times) ==
    [activities |-> activities, facilitators |-> facilitators,
     rooms |-> rooms, times |-> times]

ActivityIds(s) == {get_id(s.activities[i]) : i \in DOMAIN s.activities}

\* ActivityAssignment(activity, facilitator, room, time)
MkAssignment(activity, facilitator, room, time) ==
    [activity |-> activity, facilitator |-> facilitator, room |-> room, time |-> time]

\* The draws of ActivityAssignment.make_random_assignment: one random.choice
\* from each of schedule.facilitators, schedule.rooms and schedule.times.
GeneDraws(s) == Range(s.facilitators) \X Range(s.rooms) \X Range(s.times)

\* ActivityAssignment.make_random_assignment, given its three draws
make_random_gene(s, activity, draw) ==
    MkAssignment(activity, draw[1], draw[2], draw[3])

\* The dict built by inserting items[k] under keys[k] for k = 1, 2, ...:
\* a later insertion under an equal key replaces the earlier one.
DictOf(keys, items) ==
    [id \in Range(keys) |->
        LET last == CHOOSE k \in DOMAIN keys :
                        /\ keys[k] = id
                        /\ \A j \in DOMAIN keys : keys[j] = id => j <= k
        IN  items[last]]

IdSeq(s) == [k \in DOMAIN s.activities |-> get_id(s.activities[k])]

\* ScheduleAssignment.make_random_assignment, given the draws of each activity.
\* A ScheduleAssignment is modelled by its activities dict; its schedule field
\* is the run's one Schedule throughout.
make_random_assignment(s, draws) ==
    DictOf(IdSeq(s),
           [k \in DOMAIN s.activities |-> make_random_gene(s, s.activities[k], draws[k])])

\* every value make_random_assignment can return
RandomAssignments(s) ==
    {make_random_assignment(s, d) : d \in [DOMAIN s.activities -> GeneDraws(s)]}

(***************************************************************************)
(* get_fitness                                                             *)
(***************************************************************************)
\* building_clusters of get_fitness
building_clusters ==
    [bld \in {"Roman", "Beach", "Slater", "Loft", "Logos", "Frank"} |->
        IF bld \in {"Roman", "Beach"} THEN 2 ELSE 1]

\* capacity_ratio = room.capacity / expected_enrollment, kept as the exact
\* fraction <<numerator, denominator>>; the denominator is positive.
capacity_ratio(gene) == <<gene.room.capacity, gene.activity.expected_enrollment>>
RatioLT(r, k) == r[1] < k * r[2]
RatioGT(r, k) == r[1] > k * r[2]

\* A variant that tests "> 6" before "> 3".
CapacityTermSevereFirst(gene) ==
    LET r == capacity_ratio(gene)
    IN  IF RatioLT(r, 1) THEN -10
        ELSE IF RatioGT(r, 6) THEN -8
        ELSE IF RatioGT(r, 3) THEN -4
        ELSE 6

\* the capacity-fit chain of get_fitness, in the order the code tests it
CapacityTerm(gene) ==
    LET r == capacity_ratio(gene)
    IN  IF RatioLT(r, 1) THEN -10
        ELSE IF RatioGT(r, 3) THEN -4
        ELSE IF RatioGT(r, 6) THEN -8
        ELSE 6

\* the facilitator-preference chain of get_fitness
PreferenceTerm(gene) ==
    IF gene.facilitator \in gene.activity.preferred_facilitators THEN 10
    ELSE IF gene.facilitator \in gene.activity.other_facilitators THEN 4
    ELSE -2

\* The Counters and defaultdicts the first loop of get_fitness fills: one
\* increment (or set insertion) per value of schedule.activities.
room_time_load(c) ==
    [k \in {<<c[id].room, c[id].time>> : id \in DOMAIN c} |->
        Cardinality({id \in DOMAIN c : c[id].room = k[1] /\ c[id].time = k[2]})]

facilitator_load(c) ==
    [f \in {c[id].facilitator : id \in DOMAIN c} |->
        Cardinality({id \in DOMAIN c : c[id].facilitator = f})]

facilitator_time_load(c) ==
    [k \in {<<c[id].facilitator, c[id].time>> : id \in DOMAIN c} |->
        Cardinality({id \in DOMAIN c : c[id].facilitator = k[1] /\ c[id].time = k[2]})]

facilitator_time_building_schedule(c) ==
    [k \in {<<c[id].facilitator, c[id].time>> : id \in DOMAIN c} |->
        {building_clusters[c[id].room.building] :
            id \in {i \in DOMAIN c : c[i].facilitator = k[1] /\ c[i].time = k[2]}}]

\* A variant charging a flat 0.5 per conflicting (room, time).
RoomTimePenaltyFlat(load) == IF load >= 2 THEN -10 ELSE 0

\* "penalize room/time conflicts": the term of one (room, time) load
RoomTimePenalty(load) == IF load >= 2 THEN -(10 * load) ELSE 0

RoomTimeTerm(c) ==
    LET rtl == room_time_load(c)
    IN  SumFn([k \in DOMAIN rtl |-> RoomTimePenalty(rtl[k])])

\* A variant without the 'Tyler' exemption that also spares a load of 1.
FacilitatorLoadPenaltyLenient(facilitator, load) ==
    IF load = 2 THEN -8
    ELSE IF load > 4 THEN -10
    ELSE 0

\* "penalize schedules that give professors too many or too few activities":
\* the term of one facilitator_load item
FacilitatorLoadPenalty(facilitator, load) ==
    IF facilitator = "Tyler" /\ load < 2 THEN 0
    ELSE IF load \in {1, 2} THEN -8
    ELSE IF load > 4 THEN -10
    ELSE 0

FacilitatorLoadTerms(c) ==
    LET fl == facilitator_load(c)
    IN  [f \in DOMAIN fl |-> FacilitatorLoadPenalty(f, fl[f])]

\* facilitator in several places at once: a flat 0.2 per (facilitator, time)
DoubleBookingTerm(c) ==
    LET ftl == facilitator_time_load(c)
    IN  SumFn([k \in DOMAIN ftl |-> IF ftl[k] > 1 THEN -4 ELSE 0])

\* travel between consecutive activities
TravelTerm(c) ==
    LET ftbs == facilitator_time_building_schedule(c)
        visits == {<<k, grp>> : k \in DOMAIN ftbs, grp \in UNION Range(ftbs)}
        actual == {v \in visits : v[2] \in ftbs[v[1]]}
        prev(k) == IF <<k[1], k[2] - 1>> \in DOMAIN ftbs
                   THEN ftbs[<<k[1], k[2] - 1>>] ELSE {}
    IN  SumFn([v \in actual |->
            IF \/ Cardinality(prev(v[1])) > 1
               \/ (Cardinality(prev(v[1])) = 1 /\ v[2] \notin prev(v[1]))
            THEN -8 ELSE 10])

\* one section pair: "sla101_gap" / "sla191_gap"
SectionGapTerm(c, s1, s2) ==
    LET gap == Abs(c[s1].time - c[s2].time)
    IN  IF gap > 4 THEN 10 ELSE IF gap = 0 THEN -10 ELSE 0

\* one SLA101 section against one SLA191 section
CrossGapTerm(x, y) ==
    LET gap == Abs(x.time - y.time)
    IN  IF gap = 1
        THEN IF building_clusters[x.room.building] = building_clusters[y.room.building]
             THEN 10 ELSE -8
        ELSE IF gap = 2 THEN 5
        ELSE IF gap = 0 THEN -5
        ELSE 0

\* "activity-specific adjustments"
NamedTerm(c) ==
    SectionGapTerm(c, "SLA101A", "SLA101B")
    + SectionGapTerm(c, "SLA191A", "SLA191B")
    + SumFn([p \in {"SLA101A", "SLA101B"} \X {"SLA191A", "SLA191B"} |->
                CrossGapTerm(c[p[1]], c[p[2]])])

\* get_fitness with the contribution of every rule group kept apart
FitnessTerms(c) ==
    LET cap  == [id \in DOMAIN c |-> CapacityTerm(c[id])]
        pref == [id \in DOMAIN c |-> PreferenceTerm(c[id])]
        rt   == RoomTimeTerm(c)
        fl   == FacilitatorLoadTerms(c)
        db   == DoubleBookingTerm(c)
        tr   == TravelTerm(c)
        nm   == NamedTerm(c)
    IN  [capacity |-> cap, preference |-> pref, room_time |-> rt,
         facilitator_load |-> fl, double_booking |-> db, travel |-> tr,
         named |-> nm,
         fitness |-> SumFn(cap) + SumFn(pref) + rt + SumFn(fl) + db + tr + nm]

get_fitness(c) == FitnessTerms(c).fitness

(***************************************************************************)
(* Schedules                                                               *)
(***************************************************************************)
\* The four sections get_fitness names, one facilitator, one room, two
\* consecutive time slots: the smallest Schedule main() can evolve.
ToySchedule ==
    MkSchedule(
        << MkActivity("SLA", 101, "A", 30, {"Ann"}, {}),
           MkActivity("SLA", 101, "B", 30, {"Ann"}, {}),
           MkActivity("SLA", 191, "A", 40, {}, {"Ann"}),
           MkActivity("SLA", 191, "B", 40, {}, {}) >>,
        << "Ann" >>,
        << MkRoom("Roman", 1, 30) >>,
        << 0, 1 >>)

\* Five activities, two facilitators (one of them 'Tyler'), two rooms in
\* different building clusters: capacity ratios below 1, exactly 1, between
\* 1 and 3, exactly 3, between 3 and 6 and above 6 all occur, and so do
\* facilitator loads 0 to 5.
FitSchedule ==
    MkSchedule(
        << MkActivity("SLA", 101, "A", 30, {"Ann"}, {"Tyler"}),
           MkActivity("SLA", 101, "B", 10, {"Tyler"}, {}),
           MkActivity("SLA", 191, "A", 40, {}, {"Ann"}),
           MkActivity("SLA", 191, "B", 20, {}, {}),
           MkActivity("CS", 461, None, 30, {"Ann"}, {}) >>,
        << "Tyler", "Ann" >>,
        << MkRoom("Roman", 101, 30), MkRoom("Slater", 202, 90) >>,
        << 0, 1 >>)

\* Three activities with pairwise distinct identifiers.
SmallSchedule ==
    MkSchedule(
        << MkActivity("CS", 5, None, 10, {}, {}),
           MkActivity("CS", 101, "A", 10, {}, {}),
           MkActivity("CS", 101, "B", 10, {}, {}) >>,
        << "Ann" >>,
        << MkRoom("Roman", 1, 30) >>,
        << 0, 1 >>)

\* Two different activities that format to the same identifier "SLA1001"
\* (subject "SLA1" course 1, subject "SLA" course 1001), and a third.
ClashSchedule ==
    MkSchedule(
        << MkActivity("SLA1", 1, None, 10, {}, {}),
           MkActivity("SLA", 1001, None, 20, {}, {}),
           MkActivity("SLA", 101, "A", 10, {}, {}) >>,
        << "Ann" >>,
        << MkRoom("Roman", 1, 30) >>,
        << 0, 1 >>)

DistinctIds(s) ==
    \A i, j \in DOMAIN s.activities :
        get_id(s.activities[i]) = get_id(s.activities[j]) => i = j

(***************************************************************************)
(* SpecFit: get_fitness applied to every candidate over FitSchedule        *)
(***************************************************************************)
InitFit ==
    /\ schedule = FitSchedule
    /\ pc = "fit_input"
    /\ cand \in RandomAssignments(FitSchedule)
    /\ terms = None
    /\ g = None /\ population = None /\ population_fitness = None
    /\ mutation_rate = None
    /\ avg_prev_population_fitness = None /\ avg_population_fitness = None
    /\ best_schedule_ix = None /\ best_fitness = None
    /\ gen0_fitness = None /\ stop_tests = None
    /\ parent_pool_size = None /\ parent_population = None
    /\ parents = None /\ new_generation = None
    /\ a = None /\ b = None /\ chiasma = None /\ child = None

\* one call get_fitness(cand)
Evaluate ==
    /\ pc = "fit_input"
    /\ terms' = FitnessTerms(cand)
    /\ pc' = "fit_done"
    /\ UNCHANGED <<schedule, cand, mainVars, selectVars, crossVars>>

NextFit == Evaluate

SpecFit == InitFit /\ [][NextFit]_vars

\* number of activities a candidate assigns to facilitator f
LoadOf(c, f) == Cardinality({id \in DOMAIN c : c[id].facilitator = f})

\* what the facilitator-load rule charged to f (0 when f has no item)
LoadCharge(f) ==
    IF f \in DOMAIN terms.facilitator_load THEN terms.facilitator_load[f] ELSE 0

\* C4 as stated: every facilitator name with exactly one activity is charged
\* exactly 0.4 (8 units) by the facilitator-load rule.
C4_AnyFacilitatorLoadOne ==
    pc = "fit_done" =>
        \A f \in Range(schedule.facilitators) :
            LoadOf(cand, f) = 1 => LoadCharge(f) = -8

\* C4 amended: every facilitator other than 'Tyler' with exactly one activity
\* is charged exactly 0.4 by the facilitator-load rule, and 'Tyler' with
\* exactly one activity is charged nothing; the rule's charges and the other
\* rule groups add up to the fitness.
C4_LoadOneExceptTyler ==
    pc = "fit_done" =>
        /\ \A f \in Range(schedule.facilitators) :
              LoadOf(cand, f) = 1 =>
                  LoadCharge(f) = (IF f = "Tyler" THEN 0 ELSE -8)
        /\ terms.fitness - SumFn(terms.facilitator_load)
              = SumFn(terms.capacity) + SumFn(terms.preference) + terms.room_time
                + terms.double_booking + terms.travel + terms.named

\* a scored candidate in which a facilitator other than 'Tyler' has load 1
C4_Witness ==
    /\ pc = "fit_done"
    /\ \E f \in Range(schedule.facilitators) :
          f # "Tyler" /\ LoadOf(cand, f) = 1 /\ LoadCharge(f) = -8

\* C5: the capacity-fit term of every gene is -0.5 when capacity < enrollment,
\* -0.2 when capacity > 3 x enrollment (every ratio above 6 included) and
\* +0.3 otherwise; ratio exactly 1 and exactly 3 score +0.3; never -0.4.
C5_CapacityTerm ==
    pc = "fit_done" =>
        \A id \in DOMAIN cand :
            LET capacity == cand[id].room.capacity
                enrollment == cand[id].activity.expected_enrollment
                t == terms.capacity[id]
            IN  /\ t = (IF capacity < enrollment THEN -10
                        ELSE IF capacity > 3 * enrollment THEN -4
                        ELSE 6)
                /\ (capacity = enrollment => t = 6)
                /\ (capacity = 3 * enrollment => t = 6)
                /\ (capacity > 6 * enrollment => t = -4)
                /\ t # -8

\* a scored candidate with genes of ratio exactly 1, exactly 3, above 6 and
\* below 1
C5_Witness ==
    /\ pc = "fit_done"
    /\ \E i, j, k, l \in DOMAIN cand :
          /\ cand[i].room.capacity = cand[i].activity.expected_enrollment
          /\ cand[j].room.capacity = 3 * cand[j].activity.expected_enrollment
          /\ cand[k].room.capacity > 6 * cand[k].activity.expected_enrollment
          /\ cand[l].room.capacity < cand[l].activity.expected_enrollment
          /\ terms.capacity[i] = 6 /\ terms.capacity[j] = 6
          /\ terms.capacity[k] = -4 /\ terms.capacity[l] = -10

\* the activities a candidate places in room r at time t
Occupants(c, r, t) == {id \in DOMAIN c : c[id].room = r /\ c[id].time = t}

\* C6: the room/time conflict contribution is the sum, over every
\* (room, time) occupied by k >= 2 genes, of -0.5 x k; a (room, time) with one
\* gene contributes 0.  Equivalently every gene that shares its (room, time)
\* with another costs 0.5.
C6_RoomTimeConflicts ==
    pc = "fit_done" =>
        /\ terms.room_time =
              SumFn([rt \in Range(schedule.rooms) \X Range(schedule.times) |->
                        LET k == Cardinality(Occupants(cand, rt[1], rt[2]))
                        IN  IF k >= 2 THEN -(10 * k) ELSE 0])
        /\ terms.room_time =
              -10 * Cardinality({id \in DOMAIN cand :
                        Cardinality(Occupants(cand, cand[id].room, cand[id].time)) >= 2})

\* a scored candidate where exactly three genes share one (room, time), no
\* other (room, time) is shared, and the conflict contribution is -1.5
C6_Witness ==
    /\ pc = "fit_done"
    /\ \E id \in DOMAIN cand :
          Cardinality(Occupants(cand, cand[id].room, cand[id].time)) = 3
    /\ \A id \in DOMAIN cand :
          Cardinality(Occupants(cand, cand[id].room, cand[id].time)) \in {1, 3}
    /\ terms.room_time = -30

(***************************************************************************)
(* cross_schedules                                                         *)
(***************************************************************************)
\* u < r for fractions <<num, den>> with positive denominators
ProbLT(u, r) == u[1] * r[2] < r[1] * u[2]

\* Values of random.random(), which lies in [0, 1): 0 is below every positive
\* rate, 1/2 is below no rate of at most 1/2.
RandomDraws == {<<0, 1>>, <<1, 2>>}

\* random.randint(0, len(schedule.activities) - 1)
ChiasmaDraws(s) == 0 .. (Len(s.activities) - 1)

\* A variant whose mutation branch always draws for the first activity.
cross_schedules_first_activity(s, pa, pb, rate, chi, u, fresh) ==
    LET ids == IdSeq(s)
    IN  DictOf(ids,
               [k \in DOMAIN s.activities |->
                   IF ProbLT(u[k], rate)
                   THEN make_random_gene(s, s.activities[1], fresh[k])
                   ELSE IF k - 1 < chi THEN pa[ids[k]]
                   ELSE pb[ids[k]]])

\* A variant that compares "i <= chiasma".
cross_schedules_inclusive(s, pa, pb, rate, chi, u, fresh) ==
    LET ids == IdSeq(s)
    IN  DictOf(ids,
               [k \in DOMAIN s.activities |->
                   IF ProbLT(u[k], rate)
                   THEN make_random_gene(s, s.activities[k], fresh[k])
                   ELSE IF k - 1 <= chi THEN pa[ids[k]]
                   ELSE pb[ids[k]]])

\* cross_schedules(schedule, a, b, mutation_rate), given its draws: chi is
\* the chiasma, u[k] the random.random() of activity k (Python index k - 1)
\* and fresh[k] the draws of its mutation branch.
cross_schedules(s, pa, pb, rate, chi, u, fresh) ==
    LET ids == IdSeq(s)
    IN  DictOf(ids,
               [k \in DOMAIN s.activities |->
                   IF ProbLT(u[k], rate)
                   THEN make_random_gene(s, s.activities[k], fresh[k])
                   ELSE IF k - 1 < chi THEN pa[ids[k]]
                   ELSE pb[ids[k]]])

\* every offspring cross_schedules can return for these parents and rate
\* (the draws of a mutation branch that is not taken are not varied)
CrossOutcomes(s, pa, pb, rate) ==
    LET unused == CHOOSE d \in GeneDraws(s) : TRUE
        draws == {d \in [DOMAIN s.activities -> RandomDraws \X GeneDraws(s)] :
                     \A k \in DOMAIN s.activities :
                         ~ProbLT(d[k][1], rate) => d[k][2] = unused}
    IN  {cross_schedules(s, pa, pb, rate, chi,
                         [k \in DOMAIN s.activities |-> d[k][1]],
                         [k \in DOMAIN s.activities |-> d[k][2]]) :
            chi \in ChiasmaDraws(s), d \in draws}

(***************************************************************************)
(* SpecCross: candidates made by make_random_assignment and bred by        *)
(* cross_schedules, the offspring serving as parents in turn               *)
(***************************************************************************)
CrossRates == {<<0, 1>>, <<1, 10>>, <<1, 1>>}

InitCross ==
    /\ schedule \in {SmallSchedule, ClashSchedule}
    /\ pc = "cross_input"
    /\ a \in RandomAssignments(schedule)
    /\ b \in RandomAssignments(schedule)
    /\ mutation_rate \in CrossRates
    /\ chiasma = None /\ child = None
    /\ cand = None /\ terms = None
    /\ g = None /\ population = None /\ population_fitness = None
    /\ avg_prev_population_fitness = None /\ avg_population_fitness = None
    /\ best_schedule_ix = None /\ best_fitness = None
    /\ gen0_fitness = None /\ stop_tests = None
    /\ parent_pool_size = None /\ parent_population = None
    /\ parents = None /\ new_generation = None

\* one call cross_schedules(schedule, a, b, mutation_rate)
Cross ==
    /\ pc = "cross_input"
    /\ \E chi \in ChiasmaDraws(schedule),
          u \in [DOMAIN schedule.activities -> RandomDraws],
          fresh \in [DOMAIN schedule.activities -> GeneDraws(schedule)] :
          /\ chiasma' = chi
          /\ child' = cross_schedules(schedule, a, b, mutation_rate, chi, u, fresh)
    /\ pc' = "cross_done"
    /\ UNCHANGED <<schedule, a, b, g, population, population_fitness, mutation_rate,
                   avg_prev_population_fitness, avg_population_fitness,
                   best_schedule_ix, best_fitness, gen0_fitness, stop_tests,
                   selectVars, fitVars>>

\* the offspring joins the next population and is a parent there
Adopt ==
    /\ pc = "cross_done"
    /\ \/ a' = child /\ b' = b
       \/ a' = a /\ b' = child
    /\ child' = None /\ chiasma' = None
    /\ pc' = "cross_input"
    /\ UNCHANGED <<schedule, g, population, population_fitness, mutation_rate,
                   avg_prev_population_fitness, avg_population_fitness,
                   best_schedule_ix, best_fitness, gen0_fitness, stop_tests,
                   selectVars, fitVars>>

NextCross == Cross \/ Adopt

SpecCross == InitCross /\ [][NextCross]_vars

\* candidate c covers the schedule: its keys are exactly the activity
\* identifiers, one per activity, each gene refers to the activity of its key
Covers(s, c) ==
    /\ DOMAIN c = ActivityIds(s)
    /\ Cardinality(DOMAIN c) = Len(s.activities)
    /\ \A k \in DOMAIN s.activities : c[get_id(s.activities[k])].activity = s.activities[k]

\* C1: over a Schedule with pairwise distinct activity identifiers, every
\* candidate made by make_random_assignment or by cross_schedules (any
\* parents, crossover point and mutation rate in [0, 1]) has exactly the
\* Schedule's identifiers as keys and under each key a gene of that activity.
C1_KeySetIsActivityIds ==
    DistinctIds(schedule) =>
        /\ Covers(schedule, a)
        /\ Covers(schedule, b)
        /\ (pc = "cross_done" => Covers(schedule, child))

\* an offspring over a distinct-identifier Schedule with a mutated gene and
\* genes of both parents
C1_Witness ==
    /\ pc = "cross_done"
    /\ DistinctIds(schedule)
    /\ mutation_rate = <<1, 10>>
    /\ Covers(schedule, child)
    /\ \E i, j, k \in DOMAIN child :
          /\ child[i] # a[i] /\ child[i] # b[i]
          /\ child[j] = a[j] /\ child[j] # b[j]
          /\ child[k] = b[k] /\ child[k] # a[k]

\* C10: with mutation_rate = 0 (over a Schedule of n >= 1 activities with
\* pairwise distinct identifiers) the crossover point c drawn lies in
\* 0..n-1 and the offspring's gene at activity index i is a's when i < c and
\* b's when i >= c; crossing two identical parents yields them again.
C10_SplicesAtChiasma ==
    (pc = "cross_done" /\ mutation_rate = <<0, 1>> /\ DistinctIds(schedule)) =>
        /\ chiasma \in 0 .. (Len(schedule.activities) - 1)
        /\ \A k \in DOMAIN schedule.activities :
              LET id == get_id(schedule.activities[k])
              IN  child[id] = (IF k - 1 < chiasma THEN a[id] ELSE b[id])
        /\ (a = b => child = a)

\* a rate-0 offspring that differs from both parents: spliced strictly inside
C10_Witness ==
    /\ pc = "cross_done" /\ mutation_rate = <<0, 1>> /\ DistinctIds(schedule)
    /\ chiasma > 0
    /\ child # a /\ child # b

(***************************************************************************)
(* get_next_generation                                                     *)
(***************************************************************************)
\* softmax(population_fitness) is positive at every position (exp is), so
\* every position of the population can be drawn: the positions with p > 0.
softmax_support(fitness) == DOMAIN fitness

\* A variant of the pool draw with replace=True.
PoolDrawsWithReplacement(fitness, size) ==
    [1 .. size -> softmax_support(fitness)]

\* choice(population, parent_pool_size, replace=False, p=...): the lists of
\* population positions it can return; none when size exceeds the population
\* (numpy raises ValueError).
PoolDraws(fitness, size) ==
    {pool \in [1 .. size -> softmax_support(fitness)] :
        \A i, j \in 1 .. size : pool[i] = pool[j] => i = j}

\* choice(parent_population, 2, replace=False): the pairs <<a, b>> of pool
\* positions it can return; none when the pool holds fewer than two.
PairDraws(pool) ==
    {pr \in (DOMAIN pool) \X (DOMAIN pool) : pr[1] # pr[2]}

\* the draws one call of cross_schedules makes
CrossDraws(s) ==
    [chi : ChiasmaDraws(s),
     u : [DOMAIN s.activities -> RandomDraws],
     fresh : [DOMAIN s.activities -> GeneDraws(s)]]

\* get_next_generation, given the pool drawn, the pair drawn for every
\* offspring and the draws of every crossing
get_next_generation(s, pop, size, rate, pool, pr, dr) ==
    [k \in DOMAIN pop |->
        cross_schedules(s, pop[pool[pr[k][1]]], pop[pool[pr[k][2]]], rate,
                        dr[k].chi, dr[k].u, dr[k].fresh)]

(***************************************************************************)
(* SpecSelect: get_next_generation called on its own                       *)
(***************************************************************************)
\* One activity, two time slots: two candidates.
SoloSchedule ==
    MkSchedule(
        << MkActivity("SLA", 101, "A", 30, {}, {}) >>,
        << "Ann" >>,
        << MkRoom("Roman", 1, 30) >>,
        << 0, 1 >>)

InitSelect ==
    /\ schedule = SoloSchedule
    /\ pc = "select_input"
    /\ population \in UNION {[1 .. n -> RandomAssignments(SoloSchedule)] :
                                n \in 2 .. MaxSelectPopulation}
    /\ population_fitness = [k \in DOMAIN population |-> 6 * k]
    /\ parent_pool_size \in 0 .. (Len(population) + 1)
    /\ mutation_rate = <<1, 10>>
    /\ parent_population = None /\ parents = None /\ new_generation = None
    /\ g = None
    /\ avg_prev_population_fitness = None /\ avg_population_fitness = None
    /\ best_schedule_ix = None /\ best_fitness = None
    /\ gen0_fitness = None /\ stop_tests = None
    /\ a = None /\ b = None /\ chiasma = None /\ child = None
    /\ cand = None /\ terms = None

\* one call get_next_generation(schedule, population, population_fitness,
\* parent_pool_size, mutation_rate): it returns, or a draw raises ValueError
GetNextGeneration ==
    /\ pc = "select_input"
    /\ \/ \E pool \in PoolDraws(population_fitness, parent_pool_size) :
            \E pr \in [DOMAIN population -> PairDraws(pool)],
               dr \in [DOMAIN population -> CrossDraws(schedule)] :
                /\ parent_population' = pool
                /\ parents' = pr
                /\ new_generation' =
                      get_next_generation(schedule, population, parent_pool_size,
                                          mutation_rate, pool, pr, dr)
                /\ pc' = "select_done"
       \/ /\ PoolDraws(population_fitness, parent_pool_size) = {}
          /\ pc' = "ValueError"
          /\ UNCHANGED <<parent_population, parents, new_generation>>
       \/ \E pool \in PoolDraws(population_fitness, parent_pool_size) :
            /\ PairDraws(pool) = {}
            /\ parent_population' = pool
            /\ pc' = "ValueError"
            /\ UNCHANGED <<parents, new_generation>>
    /\ UNCHANGED <<schedule, parent_pool_size, g, population, population_fitness,
                   mutation_rate, avg_prev_population_fitness,
                   avg_population_fitness, best_schedule_ix, best_fitness,
                   gen0_fitness, stop_tests, crossVars, fitVars>>

NextSelect == GetNextGeneration

SpecSelect == InitSelect /\ [][NextSelect]_vars

\* C3: in every call of get_next_generation the parent pool holds no
\* population position twice and at most as many members as the population
\* (a larger pool is never drawn), and each offspring's two parents are two
\* different positions of that pool, hence two different population members.
C3_PoolWithoutReplacement ==
    /\ (parent_pool_size > Len(population) => pc # "select_done")
    /\ pc = "select_done" =>
          /\ Len(parent_population) = parent_pool_size
          /\ Len(parent_population) <= Len(population)
          /\ \A i \in DOMAIN parent_population :
                parent_population[i] \in DOMAIN population
          /\ \A i, j \in DOMAIN parent_population :
                parent_population[i] = parent_population[j] => i = j
          /\ Len(new_generation) = Len(population)
          /\ \A k \in DOMAIN new_generation :
                /\ parents[k][1] \in DOMAIN parent_population
                /\ parents[k][2] \in DOMAIN parent_population
                /\ parents[k][1] # parents[k][2]
                /\ parent_population[parents[k][1]] # parent_population[parents[k][2]]

\* a call that drew a pool smaller than the population in which one pool
\* member is a parent of two different offspring
C3_Witness ==
    /\ pc = "select_done"
    /\ Len(parent_population) < Len(population)
    /\ \E k, l \in DOMAIN new_generation :
          /\ k # l
          /\ parents[k][1] = parents[l][1]

(***************************************************************************)
(* main: the evolution loop over ToySchedule                               *)
(***************************************************************************)
\* mutation_rate = 0.1
InitialMutationRate == <<1, 10>>
\* MUTATION_RATE_DECAY = 0.5
MUTATION_RATE_DECAY == <<1, 2>>
\* the bound 1.01 of the stopping test
ConvergenceRatio == <<101, 100>>

ProbMul(x, y) == <<x[1] * y[1], x[2] * y[2]>>

\* sum(population_fitness) / len(population), as the fraction <<sum, len>>
Average(fitness) == <<SumFn(fitness), Len(fitness)>>

\* avg / avg_prev as a fraction <<num, den>>; Python raises
\* ZeroDivisionError when avg_prev is 0
Ratio(avg, avg_prev) == <<avg[1] * avg_prev[2], avg[2] * avg_prev[1]>>
RatioDefined(avg, avg_prev) == avg_prev[1] # 0

\* "avg_population_fitness / avg_prev_population_fitness < 1.01"
Stops(avg, avg_prev) ==
    LET r == Ratio(avg, avg_prev)
    IN  IF r[2] > 0 THEN ConvergenceRatio[2] * r[1] < ConvergenceRatio[1] * r[2]
        ELSE ConvergenceRatio[2] * r[1] > ConvergenceRatio[1] * r[2]

\* the draws of random.random() that fall below a rate
RateClass(rate) == {u \in RandomDraws : ProbLT(u, rate)}

ToyCandidates == RandomAssignments(ToySchedule)

\* TLC evaluates a function expression anew at every application; comparing
\* it makes TLC evaluate it once, as a table.  Tabulated(f) = f.
Tabulated(f) == IF f = f THEN f ELSE f

\* get_fitness over ToySchedule, tabulated
ToyFitness == Tabulated([c \in ToyCandidates |-> get_fitness(c)])

\* CrossOutcomes over ToySchedule, tabulated; cross_schedules reads the rate
\* only through the comparisons u < rate, so the table is keyed by RateClass;
\* every rate of main() has the class of the initial rate
ToyCross ==
    Tabulated(
        [pa \in ToyCandidates |-> [pb \in ToyCandidates |->
            [cls \in {RateClass(InitialMutationRate)} |->
                CrossOutcomes(ToySchedule, pa, pb, InitialMutationRate)]]])

\* every list get_next_generation can return in main(): a pool, and for each
\* slot of the new population a pair of the pool and one crossing of it
NextGenerations(pop, fitness, size, rate) ==
    UNION {[DOMAIN pop ->
               UNION {ToyCross[pop[pool[pr[1]]]][pop[pool[pr[2]]]][RateClass(rate)] :
                         pr \in PairDraws(pool)}] :
           pool \in PoolDraws(fitness, size)}

\* A variant of the final selection that keeps the last of the best.
ArgMaxLast(fitness) ==
    CHOOSE i \in DOMAIN fitness :
        /\ \A j \in DOMAIN fitness : fitness[j] <= fitness[i]
        /\ \A j \in DOMAIN fitness : j > i => fitness[j] < fitness[i]

\* A variant of the final selection that minimises.
ArgMin(fitness) ==
    CHOOSE i \in DOMAIN fitness :
        /\ \A j \in DOMAIN fitness : fitness[j] >= fitness[i]
        /\ \A j \in DOMAIN fitness : j < i => fitness[j] > fitness[i]

\* max(enumerate(population_fitness), key=lambda p: p[1]): the position of
\* the first maximal fitness
ArgMaxFirst(fitness) ==
    CHOOSE i \in DOMAIN fitness :
        /\ \A j \in DOMAIN fitness : fitness[j] <= fitness[i]
        /\ \A j \in DOMAIN fitness : j < i => fitness[j] < fitness[i]

MaxOf(fitness) == fitness[ArgMaxFirst(fitness)]

\* the last generation the model follows
MaxGeneration == GENERATION_THRESHOLD + 1 + MaxExtraGenerations

\* A variant of the guard of the stopping test that starts one generation early.
TestsConvergenceEarly(gen) == gen >= GENERATION_THRESHOLD

\* "if g > 100"
TestsConvergence(gen) == gen > GENERATION_THRESHOLD

\* main() up to the loop: generation 0 and its fitness
InitMain ==
    /\ schedule = ToySchedule
    /\ pc = "loop"
    /\ g = 0
    /\ population \in [1 .. POPULATION_SIZE -> ToyCandidates]
    /\ population_fitness = [k \in DOMAIN population |-> ToyFitness[population[k]]]
    /\ mutation_rate = InitialMutationRate
    /\ avg_prev_population_fitness = None /\ avg_population_fitness = None
    /\ best_schedule_ix = None /\ best_fitness = None
    /\ stop_tests = [evaluated |-> 0, failed |-> 0]
    /\ parent_pool_size = None /\ parent_population = None
    /\ parents = None /\ new_generation = None
    /\ a = None /\ b = None /\ chiasma = None /\ child = None
    /\ cand = None /\ terms = None

\* One pass of the body of "for g in count()".  avg_prev_population_fitness
\* and avg_population_fitness are assigned at the top of every pass before
\* they are read, so a pass that goes on to the next leaves no value of them
\* that is ever read: the model holds them where the loop stops (break or
\* ZeroDivisionError) and None elsewhere.
Iterate ==
    /\ pc = "loop"
    /\ g <= MaxGeneration
    /\ \E ng \in NextGenerations(population, population_fitness,
                                 PARENT_POPULATION_SIZE, mutation_rate) :
        LET prev == Average(population_fitness)
            fit  == [k \in DOMAIN ng |-> ToyFitness[ng[k]]]
            avg  == Average(fit)
        IN  /\ population' = ng
            /\ population_fitness' = fit
            /\ IF TestsConvergence(g)
               THEN IF ~RatioDefined(avg, prev)
                    THEN /\ pc' = "ZeroDivisionError"
                         /\ avg_prev_population_fitness' = prev
                         /\ avg_population_fitness' = avg
                         /\ UNCHANGED <<g, mutation_rate, stop_tests>>
                    ELSE IF Stops(avg, prev)
                    THEN /\ pc' = "break"
                         /\ avg_prev_population_fitness' = prev
                         /\ avg_population_fitness' = avg
                         /\ stop_tests' = [stop_tests EXCEPT !.evaluated = @ + 1]
                         /\ UNCHANGED <<g, mutation_rate>>
                    ELSE /\ pc' = "loop"
                         /\ mutation_rate' = ProbMul(mutation_rate, MUTATION_RATE_DECAY)
                         /\ stop_tests' = [evaluated |-> stop_tests.evaluated + 1,
                                           failed |-> stop_tests.failed + 1]
                         /\ g' = g + 1
                         /\ UNCHANGED <<avg_prev_population_fitness,
                                        avg_population_fitness>>
               ELSE /\ pc' = "loop"
                    /\ g' = g + 1
                    /\ UNCHANGED <<mutation_rate, stop_tests,
                                   avg_prev_population_fitness,
                                   avg_population_fitness>>
    /\ UNCHANGED <<schedule, best_schedule_ix, best_fitness, gen0_fitness,
                   selectVars, crossVars, fitVars>>

\* the lines after the loop: pick and report the best schedule
Report ==
    /\ pc = "break"
    /\ best_schedule_ix' = ArgMaxFirst(population_fitness) - 1
    /\ best_fitness' = population_fitness[ArgMaxFirst(population_fitness)]
    /\ pc' = "done"
    /\ UNCHANGED <<schedule, g, population, population_fitness, mutation_rate,
                   avg_prev_population_fitness, avg_population_fitness,
                   gen0_fitness, stop_tests, selectVars, crossVars, fitVars>>

Next == Iterate \/ Report

Init == InitMain /\ gen0_fitness = None

Spec == Init /\ [][Next]_vars

\* the same run, remembering the best fitness of generation 0
InitGen0 == InitMain /\ gen0_fitness = MaxOf(population_fitness)

SpecGen0 == InitGen0 /\ [][Next]_vars

\* C2 as stated: when the loop has terminated, the reported best fitness is
\* at least the fitness of every member of generation 0.
C2_BestAtLeastGeneration0 ==
    pc = "done" => best_fitness >= gen0_fitness

\* C2 amended: when the loop has terminated, the reported best fitness is at
\* least the fitness of every member of the final population (it can be
\* below the fitness of members of generation 0).
C2_BestAtLeastFinalPopulation ==
    pc = "done" =>
        \A k \in DOMAIN population : best_fitness >= get_fitness(population[k])

\* a terminated run whose reported best is below the best of generation 0
C2_Witness ==
    /\ pc = "done"
    /\ best_fitness < gen0_fitness
    /\ \A k \in DOMAIN population : best_fitness >= get_fitness(population[k])

\* C7: the candidate reported is a member of the final population whose
\* fitness, computed for that population, is its maximum; among several of
\* maximal fitness the one at the lowest index is reported.
C7_ReportsFirstBest ==
    pc = "done" =>
        /\ best_schedule_ix + 1 \in DOMAIN population
        /\ best_fitness = get_fitness(population[best_schedule_ix + 1])
        /\ \A k \in DOMAIN population :
              /\ get_fitness(population[k]) <= best_fitness
              /\ (k < best_schedule_ix + 1 => get_fitness(population[k]) < best_fitness)

\* a terminated run where two different candidates tie for the best and
\* the first is reported
C7_Witness ==
    /\ pc = "done"
    /\ best_schedule_ix = 0
    /\ \E k \in DOMAIN population :
          /\ k > 1
          /\ population[k] # population[1]
          /\ get_fitness(population[k]) = best_fitness

\* avg rose by more than 1% of |avg_prev| over avg_prev
RoseOverOnePercent(avg, avg_prev) ==
    100 * (avg[1] * avg_prev[2] - avg_prev[1] * avg[2]) > Abs(avg_prev[1]) * avg[2]

\* C8: past the threshold the loop stops at a generation exactly when
\* avg / avg_prev < 1.01; it never stops right after a generation whose
\* average rose by more than 1% over the previous average (of either sign);
\* and the ratio is defined whenever it is evaluated.
C8_StopsOnlyWhenImprovementSlowed ==
    /\ pc # "ZeroDivisionError"
    /\ pc \in {"break", "done"} =>
          /\ Stops(avg_population_fitness, avg_prev_population_fitness)
          /\ ~RoseOverOnePercent(avg_population_fitness, avg_prev_population_fitness)

RECURSIVE DecayedRate(_)
\* the initial rate after k decays
DecayedRate(k) ==
    IF k = 0 THEN InitialMutationRate
    ELSE ProbMul(DecayedRate(k - 1), MUTATION_RATE_DECAY)

\* C9: the loop neither stops nor changes mutation_rate while g is at most
\* the threshold; the stopping test is first evaluated at threshold + 1;
\* the populations of generations 0 .. threshold + 1 are bred with the initial
\* rate; afterwards the rate has been multiplied by the decay once per
\* evaluation of the test that failed.
C9_DecayOncePerFailedTest ==
    /\ pc # "loop" => g > GENERATION_THRESHOLD
    /\ g <= GENERATION_THRESHOLD + 1 =>
          /\ mutation_rate = InitialMutationRate
          /\ stop_tests.failed = 0
    /\ g <= GENERATION_THRESHOLD => stop_tests.evaluated = 0
    /\ mutation_rate = DecayedRate(stop_tests.failed)
    /\ pc = "loop" /\ g > GENERATION_THRESHOLD =>
          /\ stop_tests.evaluated = g - (GENERATION_THRESHOLD + 1)
          /\ stop_tests.failed = stop_tests.evaluated
    /\ pc \in {"break", "done"} =>
          /\ stop_tests.evaluated = g - GENERATION_THRESHOLD
          /\ stop_tests.failed = stop_tests.evaluated - 1

\* a run whose stopping test has failed twice: the rate is 0.1 x 0.5 x 0.5
C9_Witness ==
    /\ pc = "loop"
    /\ g = GENERATION_THRESHOLD + 3
    /\ stop_tests = [evaluated |-> 2, failed |-> 2]
    /\ mutation_rate = <<1, 40>>

====
